---- MODULE Spec2Model ----
(***************************************************************************)
(* Model of secure_upload_backend/main.py: the in-memory user store, the   *)
(* JWT bearer tokens, the authentication dependency and the per-user file  *)
(* naming scheme of the upload directory.                                  *)
(*                                                                         *)
(* Strings whose characters matter (usernames, file names, physical file   *)
(* names) are sequences of one-character strings, so that concatenation,   *)
(* startswith and slicing are computed as Python computes them.            *)
(*                                                                         *)
(* Every handler is an `async def` without an await in its body, so on the *)
(* event loop each handler body runs to completion before another one      *)
(* starts: one action per handler.                                         *)
(***************************************************************************)
EXTENDS Integers, Sequences, FiniteSets, TLC

VARIABLES
    fake_users_db,  \* main.py:64   username -> {username, hashed_password}
    SECRET_KEY,     \* main.py:23   the signing key of this process
    files,          \* main.py:32   UPLOAD_DIR: physical file name -> content
    now,            \* datetime.utcnow(), in ticks
    resp,           \* the response to the request last handled
    issued,         \* history: the tokens /token has returned
    accepted,       \* history: <<username, password>> pairs /register accepted
                    \*          since the process started
    owner,          \* history: physical file name -> the user whose upload
                    \*          wrote it last
    boots,          \* history: number of process restarts so far
    calls,          \* parallel callers of /register: request, position, response
    puts            \* history: the uploads whose write completed, as
                    \*          [user, name, content]

vars == <<fake_users_db, SECRET_KEY, files, now, resp, issued, accepted,
          owner, boots, calls, puts>>

(***************************************************************************)
(* Bounds of the exploration.                                              *)
(***************************************************************************)
MaxUsers == 2        \* registered users per process lifetime
MaxFiles == 2        \* files in the upload directory
MaxTokens == 1       \* tokens remembered by clients
MaxBoots == 1        \* process restarts
TicksPerSecond == 2  \* clock resolution: ticks per second
NCallers == 3        \* parallel callers of /register

(***************************************************************************)
(* Program constants.                                                      *)
(***************************************************************************)
ACCESS_TOKEN_EXPIRE_MINUTES == 30

\* timedelta(minutes=ACCESS_TOKEN_EXPIRE_MINUTES), in ticks
DefaultDelta == ACCESS_TOKEN_EXPIRE_MINUTES * 60 * TicksPerSecond

(***************************************************************************)
(* Input domains.                                                          *)
(***************************************************************************)
Usernames == { <<"a">>, <<"a", "_">>, <<"b">> }
Passwords == { "p", "q" }
Salts     == { 1 }
FileNames == { <<"x">>, <<"_", "x">> }
Contents  == { <<"h">>, <<"h", "i">> }

\* instants at which a request can arrive
Times == { 0, 1, DefaultDelta, DefaultDelta + TicksPerSecond }

\* os.getenv('SECRET_KEY') when the .env file sets it; generated keys are
\* 1, 2, ...; ForeignKey is a key the server never had
EnvKey     == 0
ForeignKey == 0 - 1

(***************************************************************************)
(* Password hashing (passlib pbkdf2_sha256): a hash string carries its     *)
(* salt and the digest of (password, salt); the digest is taken to be      *)
(* collision free.                                                         *)
(***************************************************************************)
Pbkdf2(password, salt) == <<"pbkdf2", password, salt>>

get_password_hash(password, salt) ==
    [salt |-> salt, digest |-> Pbkdf2(password, salt)]

verify_password(plain_password, hashed_password) ==
    Pbkdf2(plain_password, hashed_password.salt) = hashed_password.digest

(***************************************************************************)
(* Tokens.  A compact JWS is its payload and the key that signed it; a     *)
(* string that is no JWS is "garbage"; a request without an Authorization  *)
(* header carries the "absent" token.                                      *)
(***************************************************************************)
NoToken == [form |-> "absent"]
Garbage == [form |-> "garbage"]

\* timegm(d.utctimetuple()): whole seconds, the sub-second part is dropped
timegm(ticks) == ticks \div TicksPerSecond

\* jwt.encode: a datetime 'exp' claim is converted to whole seconds
jwt_encode(claims, key) ==
    [form    |-> "jws",
     payload |-> [k \in DOMAIN claims |->
                    IF k = "exp" THEN timegm(claims[k]) ELSE claims[k]],
     key     |-> key]

\* jwt.decode that does not verify the signature
jwt_decode_unverified(token, key, t) ==
    IF token.form # "jws" THEN [ok |-> FALSE]
    ELSE IF "exp" \in DOMAIN token.payload /\ token.payload.exp < timegm(t)
         THEN [ok |-> FALSE]
    ELSE [ok |-> TRUE, payload |-> token.payload]

\* jwt.decode that refuses a token from the first instant of the second of
\* its exp claim
jwt_decode_strict(token, key, t) ==
    IF token.form # "jws" THEN [ok |-> FALSE]
    ELSE IF token.key # key THEN [ok |-> FALSE]
    ELSE IF "exp" \in DOMAIN token.payload /\ token.payload.exp <= timegm(t)
         THEN [ok |-> FALSE]
    ELSE [ok |-> TRUE, payload |-> token.payload]

\* jwt.decode: JWTError for a string that is no JWS, for a signature made
\* with another key, and for exp < now (in whole seconds)
jwt_decode(token, key, t) ==
    IF token.form # "jws" THEN [ok |-> FALSE]
    ELSE IF token.key # key THEN [ok |-> FALSE]
    ELSE IF "exp" \in DOMAIN token.payload /\ token.payload.exp < timegm(t)
         THEN [ok |-> FALSE]
    ELSE [ok |-> TRUE, payload |-> token.payload]

\* create_access_token with the expiry set to the time of issue
create_access_token_no_delta(data, expires_delta, key, t) ==
    jwt_encode([k \in DOMAIN data \cup {"exp"} |->
                  IF k = "exp" THEN t ELSE data[k]], key)

\* expires_delta is {} for None and {d} for a timedelta of d ticks
create_access_token(data, expires_delta, key, t) ==
    LET expire == IF expires_delta # {}
                     /\ (CHOOSE d \in expires_delta : TRUE) # 0
                  THEN t + (CHOOSE d \in expires_delta : TRUE)
                  ELSE t + DefaultDelta
        to_encode == [k \in DOMAIN data \cup {"exp"} |->
                        IF k = "exp" THEN expire ELSE data[k]]
    IN  jwt_encode(to_encode, key)

(***************************************************************************)
(* Responses.                                                              *)
(***************************************************************************)
HTTPException(status_code, detail, headers) ==
    [status |-> status_code, detail |-> detail, headers |-> headers]

Bearer == "WWW-Authenticate: Bearer"

credentials_exception ==
    HTTPException(401, "Could not validate credentials", Bearer)

\* OAuth2PasswordBearer(tokenUrl='token'): 401 when the request has no
\* bearer token, otherwise the token string
oauth2_scheme(token) ==
    IF token.form = "absent"
    THEN [ok |-> FALSE, error |-> HTTPException(401, "Not authenticated", Bearer)]
    ELSE [ok |-> TRUE]

\* get_current_user that trusts the subject of a decoded token
get_current_user_no_lookup(token, db, key, t) ==
    IF ~oauth2_scheme(token).ok
    THEN [ok |-> FALSE, error |-> oauth2_scheme(token).error]
    ELSE LET decoded == jwt_decode(token, key, t) IN
         IF ~decoded.ok
         THEN [ok |-> FALSE, error |-> credentials_exception]
         ELSE IF "sub" \notin DOMAIN decoded.payload
         THEN [ok |-> FALSE, error |-> credentials_exception]
         ELSE [ok |-> TRUE, user |-> [username |-> decoded.payload.sub]]

get_current_user(token, db, key, t) ==
    IF ~oauth2_scheme(token).ok
    THEN [ok |-> FALSE, error |-> oauth2_scheme(token).error]
    ELSE LET decoded == jwt_decode(token, key, t) IN
         IF ~decoded.ok
         THEN [ok |-> FALSE, error |-> credentials_exception]
         ELSE IF "sub" \notin DOMAIN decoded.payload
         THEN [ok |-> FALSE, error |-> credentials_exception]
         ELSE IF decoded.payload.sub \notin DOMAIN db
         THEN [ok |-> FALSE, error |-> credentials_exception]
         ELSE [ok |-> TRUE, user |-> db[decoded.payload.sub]]

(***************************************************************************)
(* File naming.                                                            *)
(***************************************************************************)
\* f"{username}_{filename}" inside UPLOAD_DIR
file_location(username, filename) == username \o <<"_">> \o filename

(***************************************************************************)
(* Paths.  A file is identified by its path relative to UPLOAD_DIR: a      *)
(* plain name for a file directly inside it, a path with a separator or an *)
(* absolute path for a file anywhere else.  UPLOAD_DIR holds only what     *)
(* /upload wrote, so it has no subdirectory; its parent directory exists;  *)
(* whether another directory named by a path exists is the environment's   *)
(* choice.                                                                 *)
(***************************************************************************)
Sep == "/"
DotDot == <<".", ".">>
Root == <<Sep>>

HasSep(s) == \E i \in 1..Len(s) : s[i] = Sep

\* str.split('/')
RECURSIVE Components(_)
Components(s) ==
    IF ~HasSep(s) THEN <<s>>
    ELSE LET i == CHOOSE k \in 1..Len(s) :
                      s[k] = Sep /\ \A j \in 1..(k - 1) : s[j] # Sep
         IN <<SubSeq(s, 1, i - 1)>> \o Components(SubSeq(s, i + 1, Len(s)))

\* the directory above 'at'; 'at' is a sequence of components relative to
\* UPLOAD_DIR, << >> being UPLOAD_DIR itself
Up(at) ==
    IF at = << >> THEN <<DotDot>>
    ELSE IF at[Len(at)] = DotDot THEN at \o <<DotDot>>
    ELSE IF at = <<Root>> THEN at
    ELSE SubSeq(at, 1, Len(at) - 1)

\* path resolution of open(): every component but the last must be a
\* directory, the last must not be one
RECURSIVE Walk(_, _, _)
Walk(comps, at, dirs_exist) ==
    LET c == comps[1] IN
    IF Len(comps) = 1
    THEN IF c \in {<< >>, <<".">>, DotDot}
         THEN [ok |-> FALSE]
         ELSE [ok |-> TRUE, path |-> at \o <<c>>]
    ELSE IF c \in {<< >>, <<".">>} THEN Walk(Tail(comps), at, dirs_exist)
    ELSE IF c = DotDot THEN Walk(Tail(comps), Up(at), dirs_exist)
    ELSE IF at # << >> /\ dirs_exist
         THEN Walk(Tail(comps), at \o <<c>>, dirs_exist)
         ELSE [ok |-> FALSE]

\* the path as one string
RECURSIVE Join(_)
Join(path) ==
    IF Len(path) = 1 THEN path[1]
    ELSE IF path[1] = Root THEN Root \o Join(Tail(path))
    ELSE path[1] \o <<Sep>> \o Join(Tail(path))

\* os.path.join(UPLOAD_DIR, name) followed by open(.., 'wb+'): the file
\* that is opened, or the OSError
open_wb(name, dirs_exist) ==
    LET start == IF name # << >> /\ name[1] = Sep THEN <<Root>> ELSE << >>
        w == Walk(Components(name), start, dirs_exist)
    IN  IF w.ok THEN [ok |-> TRUE, file |-> Join(w.path)] ELSE [ok |-> FALSE]

\* str.startswith
startswith(s, prefix) ==
    /\ Len(prefix) <= Len(s)
    /\ SubSeq(s, 1, Len(prefix)) = prefix

\* the entries of os.listdir(UPLOAD_DIR) that /files keeps for username
listed(username, dir) ==
    { filename \in DOMAIN dir :
        /\ ~HasSep(filename)
        /\ startswith(filename, username \o <<"_">>) }

\* the 'files' list that /files builds for username, as a set
list_files(username, dir) ==
    { [name |-> SubSeq(filename, Len(username) + 2, Len(filename)),
       size |-> Len(dir[filename])] : filename \in listed(username, dir) }

(***************************************************************************)
(* Initial state: module load.                                             *)
(***************************************************************************)
NoResp == [op |-> "none", status |-> 0]

Init ==
    /\ fake_users_db = << >>
    /\ SECRET_KEY \in {EnvKey, 1}
    /\ files = << >>
    /\ now = 0
    /\ resp = NoResp
    /\ issued = {}
    /\ accepted = {}
    /\ owner = << >>
    /\ boots = 0
    /\ calls = << >>
    /\ puts = {}

(***************************************************************************)
(* POST /register                                                          *)
(***************************************************************************)
\* register that stores the record before it looks for the username
register_store_first(username, password, salt) ==
    /\ username \in DOMAIN fake_users_db
        \/ Cardinality(DOMAIN fake_users_db) < MaxUsers
    /\ fake_users_db' =
         [u \in DOMAIN fake_users_db \cup {username} |->
            IF u = username
            THEN [username |-> username,
                  hashed_password |-> get_password_hash(password, salt)]
            ELSE fake_users_db[u]]
    /\ IF username \in DOMAIN fake_users_db
       THEN /\ resp' = [op |-> "register"]
                       @@ HTTPException(400, "Username already registered", "")
            /\ UNCHANGED accepted
       ELSE /\ accepted' = accepted \cup {<<username, password>>}
            /\ resp' = [op |-> "register", status |-> 201,
                        message |-> "User registered successfully"]

\* register without the look-up of the username
register_no_check(username, password, salt) ==
    /\ username \in DOMAIN fake_users_db
        \/ Cardinality(DOMAIN fake_users_db) < MaxUsers
    /\ fake_users_db' =
         [u \in DOMAIN fake_users_db \cup {username} |->
            IF u = username
            THEN [username |-> username,
                  hashed_password |-> get_password_hash(password, salt)]
            ELSE fake_users_db[u]]
    /\ accepted' = accepted \cup {<<username, password>>}
    /\ resp' = [op |-> "register", status |-> 201,
                message |-> "User registered successfully"]

register(username, password, salt) ==
    IF username \in DOMAIN fake_users_db
    THEN /\ resp' = [op |-> "register"]
                    @@ HTTPException(400, "Username already registered", "")
         /\ UNCHANGED <<fake_users_db, accepted>>
    ELSE /\ Cardinality(DOMAIN fake_users_db) < MaxUsers
         /\ fake_users_db' =
              [u \in DOMAIN fake_users_db \cup {username} |->
                 IF u = username
                 THEN [username |-> username,
                       hashed_password |-> get_password_hash(password, salt)]
                 ELSE fake_users_db[u]]
         /\ accepted' = accepted \cup {<<username, password>>}
         /\ resp' = [op |-> "register", status |-> 201,
                     message |-> "User registered successfully"]

Register(username, password, salt) ==
    /\ register(username, password, salt)
    /\ UNCHANGED <<SECRET_KEY, files, now, issued, owner, boots, calls, puts>>

(***************************************************************************)
(* POST /token                                                             *)
(***************************************************************************)
\* login that answers an unknown username with an error of its own
login_separate_errors(username, password, db, key, t) ==
    IF username \notin DOMAIN db
    THEN HTTPException(404, "User not found", "")
    ELSE IF ~verify_password(password, db[username].hashed_password)
    THEN HTTPException(401, "Incorrect username or password", Bearer)
    ELSE [status |-> 200,
          access_token |-> create_access_token([sub |-> db[username].username],
                                               {}, key, t),
          token_type |-> "bearer"]

login(username, password, db, key, t) ==
    IF username \notin DOMAIN db
       \/ ~verify_password(password, db[username].hashed_password)
    THEN HTTPException(401, "Incorrect username or password", Bearer)
    ELSE [status |-> 200,
          access_token |-> create_access_token([sub |-> db[username].username],
                                               {}, key, t),
          token_type |-> "bearer"]

Login(username, password) ==
    LET r == login(username, password, fake_users_db, SECRET_KEY, now) IN
    /\ resp' = [op |-> "login"] @@ r
    /\ IF r.status # 200
       THEN issued' = issued
       ELSE \E kept \in SUBSET issued :
              /\ Cardinality(kept) < MaxTokens
              /\ Cardinality(kept) >= Cardinality(issued) - 1
              /\ issued' = kept \cup {[token |-> r.access_token,
                                       user |-> username,
                                       iat |-> now, boot |-> boots]}
    /\ UNCHANGED <<fake_users_db, SECRET_KEY, files, now, accepted, owner,
                   boots, calls, puts>>

(***************************************************************************)
(* create_access_token called by other code of the process than /token,    *)
(* with a payload and a lifetime of the caller's choice.                   *)
(***************************************************************************)
Issue(data, expires_delta) ==
    LET token == create_access_token(data, expires_delta, SECRET_KEY, now) IN
    /\ resp' = [op |-> "issue", status |-> 200, access_token |-> token]
    /\ \E kept \in SUBSET issued :
         /\ Cardinality(kept) < MaxTokens
         /\ Cardinality(kept) >= Cardinality(issued) - 1
         /\ issued' = kept \cup {[token |-> token, iat |-> now,
                                  boot |-> boots, ttl |-> expires_delta]}
    /\ UNCHANGED <<fake_users_db, SECRET_KEY, files, now, accepted, owner,
                   boots, calls, puts>>

(***************************************************************************)
(* Tokens a client can present: none, a string that is no JWS, a JWS       *)
(* signed with a key of the client's own, or a token /token returned.      *)
(***************************************************************************)
Forged == [form |-> "jws",
           payload |-> [sub |-> <<"a">>, exp |-> timegm(4 * DefaultDelta)],
           key |-> ForeignKey]

Presentable == {NoToken, Garbage, Forged} \cup { i.token : i \in issued }

(***************************************************************************)
(* POST /upload                                                            *)
(***************************************************************************)
\* what an exception no handler catches becomes
InternalServerError == [status |-> 500, detail |-> "Internal Server Error"]

\* upload_file that opens the file for appending
upload_file_append(token, filename, content, written, dirs_exist) ==
    LET auth == get_current_user(token, fake_users_db, SECRET_KEY, now)
        loc == file_location(auth.user.username, filename)
    IN  IF ~auth.ok
        THEN /\ resp' = [op |-> "upload", token |-> token] @@ auth.error
             /\ UNCHANGED <<files, owner>>
        ELSE /\ loc \in DOMAIN files \/ Cardinality(DOMAIN files) < MaxFiles
             /\ files' = [f \in DOMAIN files \cup {loc} |->
                            IF f # loc THEN files[f]
                            ELSE IF loc \in DOMAIN files
                                 THEN files[loc] \o content ELSE content]
             /\ owner' = [f \in DOMAIN files \cup {loc} |->
                            IF f = loc THEN auth.user.username ELSE owner[f]]
             /\ resp' = [op |-> "upload", token |-> token, status |-> 200,
                         info |-> filename, user |-> auth.user.username]

\* the handler with its environment: 'written' is the number of bytes
\* copyfileobj wrote before the write failed (all of them when it did not)
upload_file_env(token, filename, content, written, dirs_exist) ==
    LET auth == get_current_user(token, fake_users_db, SECRET_KEY, now) IN
    IF ~auth.ok
    THEN /\ resp' = [op |-> "upload", token |-> token] @@ auth.error
         /\ UNCHANGED <<files, owner>>
    ELSE LET opened == open_wb(file_location(auth.user.username, filename),
                               dirs_exist) IN
         IF ~opened.ok
         THEN /\ resp' = [op |-> "upload", token |-> token]
                            @@ InternalServerError
              /\ UNCHANGED <<files, owner>>
         ELSE LET loc == opened.file IN
              /\ loc \in DOMAIN files \/ Cardinality(DOMAIN files) < MaxFiles
              /\ files' = [f \in DOMAIN files \cup {loc} |->
                             IF f = loc THEN SubSeq(content, 1, written)
                             ELSE files[f]]
              /\ owner' = [f \in DOMAIN files \cup {loc} |->
                             IF f = loc THEN auth.user.username ELSE owner[f]]
              /\ resp' = IF written < Len(content)
                         THEN [op |-> "upload", token |-> token]
                                @@ InternalServerError
                         ELSE [op |-> "upload", token |-> token,
                               status |-> 200, info |-> filename,
                               user |-> auth.user.username]

\* the handler when every write succeeds
upload_file(token, filename, content) ==
    upload_file_env(token, filename, content, Len(content), TRUE)

Upload(token, filename, content) ==
    /\ upload_file(token, filename, content)
    /\ UNCHANGED <<fake_users_db, SECRET_KEY, now, issued, accepted, boots,
                   calls, puts>>

\* /upload in its environment, with the completed uploads recorded
Put(token, filename, content, written, dirs_exist) ==
    /\ upload_file_env(token, filename, content, written, dirs_exist)
    /\ puts' = IF resp'.status = 200
               THEN puts \cup {[user |-> resp'.user, name |-> filename,
                                content |-> content]}
               ELSE puts
    /\ UNCHANGED <<fake_users_db, SECRET_KEY, now, issued, accepted, boots,
                   calls>>

(***************************************************************************)
(* GET /files                                                              *)
(***************************************************************************)
List(token) ==
    LET auth == get_current_user(token, fake_users_db, SECRET_KEY, now) IN
    /\ resp' = IF ~auth.ok
               THEN [op |-> "list", token |-> token] @@ auth.error
               ELSE [op |-> "list", token |-> token, status |-> 200,
                     user |-> auth.user.username,
                     files |-> list_files(auth.user.username, files)]
    /\ UNCHANGED <<fake_users_db, SECRET_KEY, files, now, issued, accepted,
                   owner, boots, calls, puts>>

(***************************************************************************)
(* Time passes.                                                            *)
(***************************************************************************)
Advance(t) ==
    /\ t > now
    /\ now' = t
    /\ UNCHANGED <<fake_users_db, SECRET_KEY, files, resp, issued, accepted,
                   owner, boots, calls, puts>>

(***************************************************************************)
(* The process is restarted: the module is loaded again.  The user store   *)
(* starts empty, the upload directory is kept, the key is read from the    *)
(* environment again or generated afresh.                                  *)
(***************************************************************************)
Restart ==
    /\ boots < MaxBoots
    /\ boots' = boots + 1
    /\ fake_users_db' = << >>
    /\ SECRET_KEY' = IF SECRET_KEY = EnvKey THEN EnvKey ELSE SECRET_KEY + 1
    /\ accepted' = {}
    /\ resp' = NoResp
    /\ UNCHANGED <<files, now, issued, owner, calls, puts>>

(***************************************************************************)
(* Parallel callers of /register.  Each caller's request is handled by one *)
(* run of the handler; the runs are taken in any order.                    *)
(***************************************************************************)
Callers == 1 .. NCallers

RegisterCall(c, salt) ==
    /\ c \in DOMAIN calls
    /\ calls[c].pc = "pending"
    /\ register(calls[c].username, calls[c].password, salt)
    /\ calls' = [calls EXCEPT ![c] = [username |-> calls[c].username,
                                      password |-> calls[c].password,
                                      pc |-> "done",
                                      status |-> resp'.status]]
    /\ UNCHANGED <<SECRET_KEY, files, now, issued, owner, boots, puts>>

InitCalls ==
    /\ fake_users_db = << >>
    /\ SECRET_KEY \in {EnvKey, 1}
    /\ files = << >>
    /\ now = 0
    /\ resp = NoResp
    /\ issued = {}
    /\ accepted = {}
    /\ owner = << >>
    /\ boots = 0
    /\ calls \in [Callers -> [username : Usernames, password : Passwords,
                              pc : {"pending"}, status : {0}]]
    /\ puts = {}

(***************************************************************************)
(* Specifications.                                                         *)
(*   Spec        the four handlers and the clock, in one process lifetime  *)
(*   SpecRestart registration, login and an authenticated call, the clock  *)
(*               and process restarts                                      *)
(*   SpecCalls   parallel callers of /register                             *)
(*   SpecInput   registration and login with empty strings among the       *)
(*               inputs                                                    *)
(*   SpecPath    uploads where usernames and file names hold path syntax   *)
(*   SpecToken   tokens issued with a lifetime of the caller's choice      *)
(*   SpecPut     the handlers at one instant, the completed uploads        *)
(*               recorded                                                  *)
(*   SpecFail    uploads whose write can fail part way                     *)
(***************************************************************************)
Next ==
    \/ \E u \in Usernames, p \in Passwords, s \in Salts : Register(u, p, s)
    \/ \E u \in Usernames, p \in Passwords : Login(u, p)
    \/ \E tok \in Presentable, f \in FileNames, c \in Contents : Upload(tok, f, c)
    \/ \E tok \in Presentable : List(tok)
    \/ \E t \in Times : Advance(t)

Spec == Init /\ [][Next]_vars

NextRestart ==
    \/ \E u \in Usernames, p \in Passwords, s \in Salts : Register(u, p, s)
    \/ \E u \in Usernames, p \in Passwords : Login(u, p)
    \/ \E tok \in Presentable : List(tok)
    \/ \E t \in Times : Advance(t)
    \/ Restart

SpecRestart == Init /\ [][NextRestart]_vars

NextCalls == \E c \in Callers, s \in Salts : RegisterCall(c, s)

SpecCalls == InitCalls /\ [][NextCalls]_vars

\* every str is a valid UserCreate.username and UserCreate.password, the
\* empty one included
AnyUsernames == Usernames \cup { << >> }
AnyPasswords == Passwords \cup { "" }

NextInput ==
    \/ \E u \in AnyUsernames, p \in AnyPasswords, s \in Salts : Register(u, p, s)
    \/ \E u \in AnyUsernames, p \in AnyPasswords : Login(u, p)

SpecInput == Init /\ [][NextInput]_vars

\* usernames and file names with path syntax in them
PathUsernames == { <<"a">>, <<".", ".", Sep>>, <<Sep, "t", Sep>> }
PathFileNames == { <<"x">>, DotDot, <<".", ".", Sep, "x">> }

NextPath ==
    \/ \E u \in PathUsernames, s \in Salts : Register(u, "p", s)
    \/ \E u \in PathUsernames : Login(u, "p")
    \/ \E tok \in Presentable, f \in PathFileNames, c \in Contents,
          d \in BOOLEAN : Put(tok, f, c, Len(c), d)
    \/ \E tok \in Presentable : List(tok)

SpecPath == Init /\ [][NextPath]_vars

\* lifetimes and payloads handed to create_access_token
Deltas == {0, 1, TicksPerSecond}
Payloads == { [sub |-> <<"a">>], [sub |-> <<"b">>], [role |-> "r"] }

NextToken ==
    \/ \E u \in {<<"a">>}, s \in Salts : Register(u, "p", s)
    \/ \E u \in {<<"a">>}, p \in Passwords : Login(u, p)
    \/ \E data \in Payloads,
          delta \in {{}} \cup {{d} : d \in Deltas} : Issue(data, delta)
    \/ \E tok \in Presentable : List(tok)
    \/ \E t \in Times : Advance(t)

SpecToken == Init /\ [][NextToken]_vars

NextPut ==
    \/ \E u \in Usernames, s \in Salts : Register(u, "p", s)
    \/ \E u \in Usernames : Login(u, "p")
    \/ \E tok \in Presentable, f \in FileNames, c \in Contents :
          Put(tok, f, c, Len(c), TRUE)
    \/ \E tok \in Presentable : List(tok)

SpecPut == Init /\ [][NextPut]_vars

\* users whose files cannot be taken for one another's
PlainUsernames == { <<"a">>, <<"b">> }

NextFail ==
    \/ \E u \in PlainUsernames, s \in Salts : Register(u, "p", s)
    \/ \E u \in PlainUsernames : Login(u, "p")
    \/ \E tok \in Presentable, f \in FileNames, c \in Contents :
          \E written \in 0..Len(c) : Put(tok, f, c, written, TRUE)
    \/ \E tok \in Presentable : List(tok)

SpecFail == Init /\ [][NextFail]_vars

(***************************************************************************)
(* Properties.                                                             *)
(***************************************************************************)
\* what get_current_user answers for token at the current state
Authenticated(token) ==
    get_current_user(token, fake_users_db, SECRET_KEY, now)

\* C1: for every (username, password) that /register accepted, /token with
\* the same credentials answers 200 with token_type "bearer", and the token
\* it returns authenticates as exactly that username at every time before
\* its expiry; so does every token /token has returned, in every state
\* reached by further register, login, upload and list requests.
C1_RegisterThenLogin ==
    /\ \A cred \in accepted :
         LET r == login(cred[1], cred[2], fake_users_db, SECRET_KEY, now) IN
         /\ r.status = 200
         /\ r.token_type = "bearer"
         /\ \A t \in Times :
              (now <= t /\ t < now + DefaultDelta) =>
                LET a == get_current_user(r.access_token, fake_users_db,
                                          SECRET_KEY, t) IN
                a.ok /\ a.user.username = cred[1]
    /\ \A i \in issued :
         now < i.iat + DefaultDelta =>
           /\ Authenticated(i.token).ok
           /\ Authenticated(i.token).user.username = i.user
    /\ (resp.op = "login" /\ resp.status = 200) => resp.token_type = "bearer"

\* C1 witness: a token returned to a registered user is presented later,
\* before its expiry, with a second user registered and a file stored, and
\* the listing is answered for that user.
C1_Witness ==
    \E i \in issued :
      /\ \E p \in Passwords : <<i.user, p>> \in accepted
      /\ i.iat < now
      /\ now < i.iat + DefaultDelta
      /\ Cardinality(DOMAIN fake_users_db) = 2
      /\ files # << >>
      /\ resp.op = "list"
      /\ resp.token = i.token
      /\ resp.status = 200
      /\ resp.user = i.user

\* C2: /register with a username that is in the user store answers 400
\* 'Username already registered' whatever the password, and no step changes
\* or removes a record of the user store: the stored hash stays the one the
\* first successful /register wrote.
C2_RegisterTaken ==
    [][ /\ \A u \in DOMAIN fake_users_db :
             /\ u \in DOMAIN fake_users_db'
             /\ fake_users_db'[u] = fake_users_db[u]
        /\ resp'.op = "register" =>
             \A u \in DOMAIN fake_users_db, p \in Passwords, s \in Salts :
               Register(u, p, s) =>
                 resp' = [op |-> "register", status |-> 400,
                          detail |-> "Username already registered",
                          headers |-> ""]
      ]_vars

\* C2 witness: a registration was refused while a record is stored whose
\* hash matches the password accepted first.
C2_Witness ==
    /\ resp.op = "register"
    /\ resp.status = 400
    /\ \E cred \in accepted :
         /\ cred[1] \in DOMAIN fake_users_db
         /\ verify_password(cred[2], fake_users_db[cred[1]].hashed_password)

\* the one response of a refused login
LoginRefused ==
    [op |-> "login", status |-> 401,
     detail |-> "Incorrect username or password", headers |-> Bearer]

\* C3: /token with a username that is not registered and /token with a
\* registered username and a wrong password are answered by the same
\* response: same status 401, same detail, same WWW-Authenticate header.
C3_LoginNoOracle ==
    /\ \A u \in Usernames, p \in Passwords :
         ( \/ u \notin DOMAIN fake_users_db
           \/ ~verify_password(p, fake_users_db[u].hashed_password) )
         => [op |-> "login"] @@ login(u, p, fake_users_db, SECRET_KEY, now)
              = LoginRefused
    /\ (resp.op = "login" /\ resp.status # 200) => resp = LoginRefused

\* C3 witness: a login was refused in a state where both causes exist: a
\* username that is not registered and a registered one with a wrong password.
C3_Witness ==
    /\ resp = LoginRefused
    /\ \E u \in Usernames : u \notin DOMAIN fake_users_db
    /\ \E u \in DOMAIN fake_users_db, p \in Passwords :
         ~verify_password(p, fake_users_db[u].hashed_password)

\* C4 (as claimed): a token issued at time t with the default ttl is accepted
\* at every time now < t + ttl and rejected at every time now >= t + ttl.
C4_ExpiryExact ==
    \A i \in issued :
      Authenticated(i.token).ok <=> now < i.iat + DefaultDelta

\* a token that cannot pass verification: none, no JWS, signed with a key
\* that is not the server's, or with exp before the current second
FailsVerification(token) ==
    \/ token.form # "jws"
    \/ token.key # SECRET_KEY
    \/ token.payload.exp < timegm(now)

\* C5: /upload and /files with no token or with a token that fails
\* verification answer 401 and leave the upload directory unchanged; the
\* directory changes only by an /upload answered 200 for a registered user
\* to whom the presented token resolves.
C5_AuthGate ==
    [][ /\ (resp'.op \in {"upload", "list"} /\ now' = now) =>
             \A tok \in {resp'.token} :
               FailsVerification(tok) =>
                 /\ \A f \in FileNames, c \in Contents :
                      Upload(tok, f, c) => (resp'.status = 401 /\ files' = files)
                 /\ List(tok) => (resp'.status = 401 /\ files' = files)
        /\ files' # files =>
             /\ resp'.op = "upload"
             /\ resp'.status = 200
             /\ resp'.user \in DOMAIN fake_users_db
             /\ ~FailsVerification(resp'.token)
             /\ resp'.token.payload.sub = resp'.user
      ]_vars

\* C5 witness: an upload with an expired token of a registered user was
\* answered 401 while the directory holds a file.
C5_Witness ==
    /\ resp.op = "upload"
    /\ resp.status = 401
    /\ resp.token.form = "jws"
    /\ resp.token.key = SECRET_KEY
    /\ resp.token.payload.exp < timegm(now)
    /\ resp.token.payload.sub \in DOMAIN fake_users_db
    /\ files # << >>

\* C6 (as claimed): every file that /files lists for a registered user was
\* stored by an upload of that user, for every pair of usernames.
C6_ListOnlyOwn ==
    \A u \in DOMAIN fake_users_db :
      \A f \in listed(u, files) : owner[f] = u

\* C7 (as claimed): when two distinct users A and B have each uploaded a file
\* named x and nothing else is stored, the listing of A is exactly A's x with
\* the size of the content A uploaded.
C7_SameNameNoCollision ==
    \A A \in Usernames, B \in Usernames, x \in FileNames :
      ( /\ A # B
        /\ DOMAIN files = {file_location(A, x), file_location(B, x)}
        /\ owner[file_location(A, x)] = A
        /\ owner[file_location(B, x)] = B )
      => list_files(A, files) =
           { [name |-> x, size |-> Len(files[file_location(A, x)])] }

\* C8 (as claimed): the physical file name is an injective function of
\* (owner, logical name) over the registered users.
C8_KeyInjective ==
    \A u1 \in DOMAIN fake_users_db, u2 \in DOMAIN fake_users_db,
       n1 \in FileNames, n2 \in FileNames :
      file_location(u1, n1) = file_location(u2, n2) => (u1 = u2 /\ n1 = n2)

\* the callers that have their response, and those answered 201, for username
Done(username) ==
    { c \in Callers : calls[c].username = username /\ calls[c].pc = "done" }

Won(username) == { c \in Done(username) : calls[c].status = 201 }

\* C9: of the parallel callers of /register with one username, as soon as
\* one has its response exactly one was answered 201 and every other one
\* that has its response was answered 400; the user store holds the record
\* of that username with the hash of the password of the caller answered 201.
C9_OneRegistrationWins ==
    \A u \in Usernames :
      /\ Done(u) # {} =>
           /\ Cardinality(Won(u)) = 1
           /\ \A c \in Done(u) \ Won(u) : calls[c].status = 400
           /\ u \in DOMAIN fake_users_db
           /\ fake_users_db[u].username = u
           /\ \A c \in Won(u) :
                verify_password(calls[c].password,
                                fake_users_db[u].hashed_password)
      /\ Done(u) = {} => u \notin DOMAIN fake_users_db

\* C9 witness: all callers used one username, not all the same password, and
\* all have their response.
C9_Witness ==
    \E u \in Usernames :
      /\ Done(u) = Callers
      /\ \E c \in Callers, d \in Callers :
           calls[c].password # calls[d].password

\* a token with a valid signature and an exp that has not passed whose
\* subject is not in the user store
Orphan(token) ==
    /\ token.form = "jws"
    /\ token.key = SECRET_KEY
    /\ ~(token.payload.exp < timegm(now))
    /\ token.payload.sub \notin DOMAIN fake_users_db

\* C10: a token with a valid signature and an unexpired exp whose subject is
\* not in the current user store does not authenticate, and a protected
\* request that presents it is answered 401.
C10_SubjectResolved ==
    [][ \A tok \in Presentable :
          Orphan(tok) =>
            /\ ~Authenticated(tok).ok
            /\ Authenticated(tok).error = credentials_exception
            /\ (resp'.op = "list" /\ List(tok)) =>
                 resp' = [op |-> "list", token |-> tok] @@ credentials_exception
      ]_vars

\* C10 witness: after a restart that kept the key, the listing was refused
\* for an unexpired token whose subject the new user store does not hold.
C10_Witness ==
    /\ boots > 0
    /\ resp.op = "list"
    /\ resp.status = 401
    /\ Orphan(resp.token)
    /\ \E i \in issued : i.token = resp.token /\ i.boot < boots

\* C11 (as claimed): /register refuses an empty username and an empty
\* password: no pair it accepted has an empty component and no record of
\* the user store has an empty username.
C11_EmptyRejected ==
    /\ \A cred \in accepted : cred[1] # << >> /\ cred[2] # ""
    /\ \A u \in DOMAIN fake_users_db : u # << >>

\* C12 (as claimed): every file ever written lies directly inside the
\* upload directory, and an upload whose derived name holds a path
\* separator is never answered with success.
C12_NoEscape ==
    /\ \A f \in DOMAIN files : ~HasSep(f)
    /\ resp.op = "upload" /\ resp.status = 200
         => ~HasSep(file_location(resp.user, resp.info))

\* the step is a successful upload of 'filename' by 'username'
PutBy(username, filename) ==
    /\ resp'.op = "upload"
    /\ resp'.status = 200
    /\ resp'.user = username
    /\ resp'.info = filename

\* C13 (as claimed): a successful upload of a name by a user puts the entry
\* {name, length of the content} in that user's listing; the entry of a
\* completed upload stays there until the same user uploads the same name
\* again; and the listing of a user whose first upload it is holds exactly
\* that entry.
C13_ListedUntilReupload ==
    [][ /\ resp'.op = "upload" /\ resp'.status = 200
           => \A c \in Contents :
                Put(resp'.token, resp'.info, c, Len(c), TRUE)
                => LET e == [name |-> resp'.info, size |-> Len(c)] IN
                   /\ e \in list_files(resp'.user, files')
                   /\ (\A p \in puts : p.user # resp'.user)
                        => list_files(resp'.user, files') = {e}
        /\ \A p \in puts :
             LET e == [name |-> p.name, size |-> Len(p.content)] IN
             e \in list_files(p.user, files) /\ ~PutBy(p.user, p.name)
                => e \in list_files(p.user, files')
      ]_vars

\* C14: when a user uploads a name it uploaded before, the user's listing
\* afterwards has exactly one entry of that name, its size is the length of
\* the new content, and the directory holds no file it did not hold before.
C14_ReuploadOverwrites ==
    [][ resp'.op = "upload" /\ resp'.status = 200
          => \A c \in Contents :
               /\ Put(resp'.token, resp'.info, c, Len(c), TRUE)
               /\ \E p \in puts : p.user = resp'.user /\ p.name = resp'.info
               => /\ { e \in list_files(resp'.user, files') :
                           e.name = resp'.info }
                        = { [name |-> resp'.info, size |-> Len(c)] }
                  /\ DOMAIN files' = DOMAIN files
      ]_vars

\* a name has been uploaded twice by one user with contents of different
\* lengths, the second upload being the last call
C14_Witness ==
    /\ resp.op = "upload"
    /\ resp.status = 200
    /\ \E p, q \in puts :
         /\ p.user = resp.user /\ q.user = resp.user
         /\ p.name = resp.info /\ q.name = resp.info
         /\ Len(p.content) # Len(q.content)
         /\ files[file_location(resp.user, resp.info)] = q.content
         /\ list_files(resp.user, files)
              = {[name |-> resp.info, size |-> Len(q.content)]}

\* C15 (as claimed): when a protected call is refused, its answer (status,
\* detail and headers) is the answer every token that fails to authenticate
\* gets, whatever the cause of the failure.
C15_UniformUnauthorized ==
    resp.op \in {"upload", "list"} /\ resp.status = 401
      => \A tok \in Presentable :
           LET auth == get_current_user(tok, fake_users_db, SECRET_KEY, now)
           IN  ~auth.ok
                 => auth.error = HTTPException(resp.status, resp.detail,
                                               resp.headers)

\* C16 (as claimed): a token issued with a lifetime, zero included, carries
\* as expiry the second of the instant of issue plus that lifetime; a token
\* issued with no lifetime, as /token does, carries the instant of issue
\* plus 30 minutes.
C16_ExpiryIsNowPlusTtl ==
    \A i \in issued :
        IF "ttl" \in DOMAIN i /\ i.ttl # {}
        THEN \A d \in i.ttl : i.token.payload.exp = timegm(i.iat + d)
        ELSE i.token.payload.exp = timegm(i.iat + DefaultDelta)

\* C17 (as claimed): every size a listing reports for a name is the length
\* of the content of an upload of that name by that user that completed.
C17_NoPartialFile ==
    resp.op = "list" /\ resp.status = 200
      => \A e \in resp.files :
           \E p \in puts : /\ p.user = resp.user
                           /\ p.name = e.name
                           /\ Len(p.content) = e.size

\* C18: no step of register, login, upload, list or the clock changes the
\* signing key or removes or changes a record of the user store, and after
\* every step each token /token has returned authenticates, while the time
\* is before its expiry, as the record of the user it was issued for.
C18_OnlyExpiryInvalidates ==
    [][ /\ SECRET_KEY' = SECRET_KEY
        /\ \A u \in DOMAIN fake_users_db :
             u \in DOMAIN fake_users_db' /\ fake_users_db'[u] = fake_users_db[u]
        /\ \A i \in issued :
             now' < i.iat + DefaultDelta
               => get_current_user(i.token, fake_users_db', SECRET_KEY', now')
                    = [ok |-> TRUE, user |-> fake_users_db[i.user]]
      ]_vars

\* a token issued at an earlier instant has just been accepted, before its
\* expiry, after a second user registered and a file was uploaded
C18_Witness ==
    /\ resp.op = "list"
    /\ resp.status = 200
    /\ Cardinality(DOMAIN fake_users_db) = 2
    /\ files # << >>
    /\ \E i \in issued :
         /\ resp.token = i.token
         /\ resp.user = i.user
         /\ i.iat < now
         /\ now < i.iat + DefaultDelta
         /\ timegm(now) = i.token.payload.exp

====
